---- MODULE Spec2Model ----
(***************************************************************************)
(* Model of the inventory level predictor:                                 *)
(*   - simulation/simulator.py : calculate_needed_railcars,                *)
(*     generate_delivery_time, simulate_days                               *)
(*   - models/calculations.py  : calculate_reorder_targets                 *)
(*   - models/data_classes.py  : SiteParameters.get_service_level          *)
(*                                                                         *)
(* Quantities of simulate_days (inventory, reorder point, capacity, demand, *)
(* delivery amounts) are integers in units of 1/5 gallon, so that          *)
(* typical_daily_usage (in gallons) times the scenario multiplier 0.8, 1.0 *)
(* or 1.2 is exact; simulate_days is invariant under this scaling.         *)
(* Quantities of calculate_reorder_targets are gallons.                    *)
(* Dates are day offsets from start_date (= datetime.now(), kept with its  *)
(* time of day, so two dates are equal exactly when their offsets are).    *)
(* The fields of a DeliveryTimeProfile are floats in the source; here they *)
(* are counted in units of 1/DayFrac day, so that non-integer profiles     *)
(* exist.  A draw of np.random.normal is an input chosen from a set that   *)
(* yields every outcome of the clamp applied to it.                        *)
(***************************************************************************)
EXTENDS Integers, Sequences, FiniteSets

VARIABLES
    pc,                 \* position in simulate_days: "call", "loop", "returned"
    params,             \* SiteParameters passed to simulate_days
    reorder_point,      \* argument reorder_point
    scenario,           \* argument scenario
    days,               \* argument days
    start_weekday,      \* start_date.weekday()
    day,                \* loop variable of `for day in range(days)`
    current_inv,        \* local current_inv
    pending_deliveries, \* local list of <<delivery_date, amount>>
    delivered_today,    \* local delivered_today of the last iteration
    incoming,           \* local incoming of the last iteration (line 73)
    needed_railcars,    \* local needed_railcars of the last iteration
    orders,             \* local list of <<current_date, needed_railcars>>
    inventory,          \* local list inventory
    railcars_in_transit,\* local list railcars_in_transit
    pending_log,        \* history: pending_deliveries at the end of each day
    df,                 \* the returned DataFrame (columns as sequences)
    cpc,                \* position in calculate_reorder_targets
    cparams,            \* SiteParameters passed to calculate_reorder_targets
    safety_draw,        \* outcome of the Monte Carlo safety stock (lines 19-25)
    targets             \* the dict returned by calculate_reorder_targets

simvars == <<pc, params, reorder_point, scenario, days, start_weekday, day,
             current_inv, pending_deliveries, delivered_today, incoming,
             needed_railcars, orders, inventory, railcars_in_transit,
             pending_log, df>>
calcvars == <<cpc, cparams, safety_draw, targets>>
vars == <<simvars, calcvars>>

(***************************************************************************)
(* Bounds.                                                                 *)
(***************************************************************************)
DayFrac == 2
MaxDays == 3
MaxLeadUnits == 3
MaxReorder == 2
MaxCapacity == 2
TolSteps == 4
MaxUsage == 2
MaxMeanUnits == 3
MaxSafety == 3

(***************************************************************************)
(* Arithmetic helpers.                                                     *)
(***************************************************************************)
Max(a, b) == IF a >= b THEN a ELSE b
Min(a, b) == IF a <= b THEN a ELSE b

\* np.ceil(a / b) for integers a, b with b # 0
CeilDiv(a, b) ==
    IF b > 0 THEN -((-a) \div b) ELSE -(a \div (-b))

\* np.clip(x, lo, hi) == minimum(maximum(x, lo), hi)
Clip(x, lo, hi) == Min(Max(x, lo), hi)

\* int(x) for x = u / DayFrac: truncation toward zero
IntOfUnits(u) ==
    IF u >= 0 THEN u \div DayFrac ELSE -((-u) \div DayFrac)

RECURSIVE SumAmounts(_)
\* sum(amount for _, amount in pending)
SumAmounts(pending) ==
    IF pending = <<>> THEN 0
    ELSE Head(pending)[2] + SumAmounts(Tail(pending))

\* [(d, a) for d, a in pending if d != date]
KeepNot(pending, date) == SelectSeq(pending, LAMBDA p : p[1] # date)

\* the (d, a) in pending with d == date
Arriving(pending, date) == SelectSeq(pending, LAMBDA p : p[1] = date)

(***************************************************************************)
(* simulation/simulator.py                                                 *)
(***************************************************************************)
Scenarios == {"best_case", "expected", "worst_case"}

\* variant: the coverage test is <= instead of <
calculate_needed_railcars_le(inv, inc, p, rp) ==
    LET total_current_coverage == inv + inc
    IN  IF total_current_coverage <= rp
        THEN Max(1, CeilDiv(rp - total_current_coverage, p.railcar_capacity))
        ELSE 0

\* variant: one railcar per order, whatever the shortage
calculate_needed_railcars_one(inv, inc, p, rp) ==
    LET total_current_coverage == inv + inc
    IN  IF total_current_coverage < rp THEN 1 ELSE 0

calculate_needed_railcars(inv, inc, p, rp) ==
    LET total_current_coverage == inv + inc
    IN  IF total_current_coverage < rp
        THEN Max(1, CeilDiv(rp - total_current_coverage, p.railcar_capacity))
        ELSE 0

\* (mean, std) of the lead-time distribution, in units of 1/DayFrac day.
\* The std of best_case and worst_case is 0.5 day: positive, and the only
\* thing that matters about a positive std is that the draw is free.
LeadMean(profile, scen) ==
    IF scen = "best_case" THEN profile.min_days
    ELSE IF scen = "worst_case" THEN profile.max_days
    ELSE profile.mean_days

LeadStdPositive(profile, scen) ==
    IF scen \in {"best_case", "worst_case"} THEN TRUE
    ELSE profile.std_days > 0

\* values np.random.normal(mean, std) can return (units of 1/DayFrac day):
\* every value of [min_days, max_days] and one beyond each end, which is
\* where np.clip acts
LeadDraws(profile, scen) ==
    IF LeadStdPositive(profile, scen)
    THEN (profile.min_days - 1) .. (profile.max_days + 1)
    ELSE {LeadMean(profile, scen)}

\* int(np.clip(delivery, profile.min_days, profile.max_days)), in whole days
generate_delivery_time(profile, delivery) ==
    IntOfUnits(Clip(delivery, profile.min_days, profile.max_days))

\* current_date.weekday() for current_date = start_date + day
Weekday(d) == (start_weekday + d) % 7

\* variant: Saturday counts as a weekday
IsWeekdaySat(d) == Weekday(d) < 6
IsWeekday(d) == Weekday(d) < 5

\* demand = max(0, min(demand, current_inv))
ClampDemandUncapped(demand, inv) == Max(0, demand)
ClampDemand(demand, inv) == Max(0, Min(demand, inv))

\* demand_multiplier in fifths: 0.8, 1.2, 1.0
demand_multiplier(scen) ==
    IF scen = "best_case" THEN 4
    ELSE IF scen = "worst_case" THEN 6
    ELSE 5

\* values np.random.normal(usage * multiplier, usage_variability) can return
\* (units of 1/5 gallon) when inv is on hand: with a positive std every
\* value of [0, inv] and one beyond each end, which is where the clamp of
\* line 69 acts; with std 0 the mean itself
DemandDraws(p, scen, inv) ==
    IF p.usage_variability # 0
    THEN (-1) .. (inv + 1)
    ELSE {p.typical_daily_usage * demand_multiplier(scen)}

Profiles ==
    { [mean_days |-> me, std_days |-> sd, min_days |-> mi, max_days |-> ma] :
        mi \in 0 .. MaxLeadUnits, ma \in 0 .. MaxLeadUnits,
        me \in 0 .. MaxLeadUnits, sd \in {0, 1} }

\* 0 <= min_days <= mean_days <= max_days
ValidProfile(pr) ==
    /\ pr.min_days <= pr.mean_days
    /\ pr.mean_days <= pr.max_days

\* the profiles simulated: every valid (min_days, max_days), with a
\* deterministic lead time (std_days = 0) at mean_days = max_days and a
\* random one at mean_days = min_days
SampledProfile(pr) ==
    /\ ValidProfile(pr)
    /\ (pr.std_days = 0 => pr.mean_days = pr.max_days)
    /\ (pr.std_days # 0 => pr.mean_days = pr.min_days)

SimParams ==
    { [typical_daily_usage |-> 1, usage_variability |-> uv,
       railcar_capacity |-> cap, delivery_profile |-> pr] :
        uv \in {0, 1}, cap \in 1 .. MaxCapacity,
        pr \in {q \in Profiles : SampledProfile(q)} }

EmptyFrame ==
    [date |-> <<>>, inventory |-> <<>>, railcars_in_transit |-> <<>>,
     reorder_point |-> <<>>, incoming |-> <<>>]

(***************************************************************************)
(* models/data_classes.py and models/calculations.py                       *)
(*                                                                         *)
(* mean_days and std_days are in units of 1/DayFrac day, so               *)
(* business_days_in_lead_time = mean_days * 5 / CalcDen; lead_time_demand  *)
(* and reorder_point are kept as numerators over CalcDen.                  *)
(* price_risk_tolerance is in units of 1/TolSteps.                         *)
(***************************************************************************)
CalcDen == 7 * DayFrac

Priorities == {"HIGH", "STANDARD", "LOW_MARGIN"}

\* SiteParameters.get_service_level, in percent
get_service_level(p) ==
    IF p.business_priority = "HIGH" THEN 99
    ELSE IF p.business_priority = "STANDARD" THEN 95
    ELSE 90

\* int(250 * (1 - service_level)) in binary floating point: 1 - 0.99 and
\* 1 - 0.95 round above 0.01 and 0.05, 1 - 0.9 rounds below 0.1, so the
\* product for 0.9 is 24.999999999999996 and truncates to 24.
expected_stockout_days(p) ==
    LET sl == get_service_level(p)
        exact == 250 * (100 - sl)
    IN  IF sl = 90 /\ exact % 100 = 0 THEN (exact \div 100) - 1
        ELSE exact \div 100

CalcParams ==
    { [business_priority |-> bp, typical_daily_usage |-> u,
       usage_variability |-> uv, railcar_capacity |-> cap,
       delivery_profile |-> [mean_days |-> me, std_days |-> sd,
                             min_days |-> me, max_days |-> me],
       price_risk_tolerance |-> t] :
        bp \in Priorities, u \in (-1) .. MaxUsage, uv \in {0, 1},
        cap \in (-1) .. MaxCapacity, me \in (-1) .. MaxMeanUnits,
        sd \in (-1) .. 1, t \in {0, TolSteps \div 2, TolSteps} }

\* 7 * DayFrac * lead_time_demand
lead_time_demand_num(p) ==
    p.typical_daily_usage * p.delivery_profile.mean_days * 5

\* np.sqrt of a negative business_days_in_lead_time is nan, and nan spreads
\* to safety_stock, reorder_point, max_railcars and risk_adjusted_railcars
SafetyIsNaN(p) == p.delivery_profile.mean_days < 0

\* safety_stock = z_score * sqrt(demand_uncertainty^2 + lead_time_uncertainty^2)
\* with z_score = |percentile of 10000 normal draws| >= 0: exactly 0 when
\* both uncertainties are 0, otherwise some value >= 0.
SafetyDraws(p) ==
    IF /\ (p.usage_variability = 0 \/ p.delivery_profile.mean_days = 0)
       /\ (p.typical_daily_usage = 0 \/ p.delivery_profile.std_days = 0)
    THEN {0}
    ELSE 0 .. MaxSafety

\* min_railcars = max(1, np.ceil(lead_time_demand / railcar_capacity))
min_railcars(p) ==
    Max(1, CeilDiv(lead_time_demand_num(p), CalcDen * p.railcar_capacity))

\* max_railcars = np.ceil((lead_time_demand + safety_stock) / railcar_capacity)
max_railcars(p, safety) ==
    CeilDiv(lead_time_demand_num(p) + CalcDen * safety,
            CalcDen * p.railcar_capacity)

\* variant: weights the span by price_risk_tolerance instead of 1 - it
risk_adjusted_ceil_swapped(lo, hi, t) ==
    CeilDiv(lo * TolSteps + (hi - lo) * t, TolSteps)

\* np.ceil(min_railcars + (max_railcars - min_railcars) * (1 - tolerance))
risk_adjusted_ceil(lo, hi, t) ==
    CeilDiv(lo * TolSteps + (hi - lo) * (TolSteps - t), TolSteps)

NoTargets ==
    [raised |-> "none", reorder_point_num |-> 0, recommended_railcars |-> 0,
     max_railcars |-> 0, safety_stock |-> 0,
     expected_stockout_days_per_year |-> 0, lead_time_demand_num |-> 0]

calculate_reorder_targets(p, safety) ==
    IF p.railcar_capacity = 0
    THEN [NoTargets EXCEPT !.raised = "ZeroDivisionError"]
    ELSE IF SafetyIsNaN(p)
    THEN [NoTargets EXCEPT !.raised = "ValueError"]
    ELSE [raised |-> "none",
          reorder_point_num |-> lead_time_demand_num(p) + CalcDen * safety,
          recommended_railcars |-> min_railcars(p),
          max_railcars |-> risk_adjusted_ceil(min_railcars(p),
                               max_railcars(p, safety), p.price_risk_tolerance),
          safety_stock |-> safety,
          expected_stockout_days_per_year |-> expected_stockout_days(p),
          lead_time_demand_num |-> lead_time_demand_num(p)]

IdleParams ==
    [business_priority |-> "STANDARD", typical_daily_usage |-> 1,
     usage_variability |-> 0, railcar_capacity |-> 1,
     delivery_profile |-> [mean_days |-> 0, std_days |-> 0,
                           min_days |-> 0, max_days |-> 0],
     price_risk_tolerance |-> 0]

CalcIdle ==
    /\ cpc = "idle"
    /\ cparams = IdleParams
    /\ safety_draw = 0
    /\ targets = NoTargets

SimIdle ==
    /\ pc = "idle"
    /\ params = [typical_daily_usage |-> 1, usage_variability |-> 0,
                 railcar_capacity |-> 1,
                 delivery_profile |-> [mean_days |-> 0, std_days |-> 0,
                                       min_days |-> 0, max_days |-> 0]]
    /\ reorder_point = 0
    /\ scenario = "expected"
    /\ days = 0
    /\ start_weekday = 0
    /\ day = 0
    /\ current_inv = 0
    /\ pending_deliveries = <<>>
    /\ delivered_today = 0
    /\ incoming = 0
    /\ needed_railcars = 0
    /\ orders = <<>>
    /\ inventory = <<>>
    /\ railcars_in_transit = <<>>
    /\ pending_log = <<>>
    /\ df = EmptyFrame

Init ==
    /\ pc = "call"
    /\ params \in SimParams
    /\ reorder_point \in 0 .. MaxReorder
    /\ scenario \in Scenarios
    /\ days \in {-1, 0, 1, MaxDays}
    /\ start_weekday \in 0 .. 6
    /\ day = 0
    /\ current_inv = 0
    /\ pending_deliveries = <<>>
    /\ delivered_today = 0
    /\ incoming = 0
    /\ needed_railcars = 0
    /\ orders = <<>>
    /\ inventory = <<>>
    /\ railcars_in_transit = <<>>
    /\ pending_log = <<>>
    /\ df = EmptyFrame
    /\ CalcIdle

\* lines 38-49: initialise tracking; current_inv = reorder_point
Begin ==
    /\ pc = "call"
    /\ pc' = "loop"
    /\ current_inv' = reorder_point
    /\ pending_deliveries' = <<>>
    /\ orders' = <<>>
    /\ inventory' = <<>>
    /\ railcars_in_transit' = <<>>
    /\ UNCHANGED <<params, reorder_point, scenario, days, start_weekday, day,
                   delivered_today, incoming, needed_railcars, pending_log, df>>
    /\ UNCHANGED calcvars

\* lines 51-92: one iteration of the loop body
SimulateDay ==
    /\ pc = "loop"
    /\ day < days
    /\ \E demand_draw \in
              DemandDraws(params, scenario,
                  current_inv + SumAmounts(Arriving(pending_deliveries, day))),
          delivery_draw \in LeadDraws(params.delivery_profile, scenario) :
        LET current_date == day
            delivered == SumAmounts(Arriving(pending_deliveries, current_date))
            inv1 == current_inv + delivered
            pend1 == KeepNot(pending_deliveries, current_date)
            demand == ClampDemand(demand_draw, inv1)
            inv2 == IF IsWeekday(current_date) THEN inv1 - demand ELSE inv1
            inc == SumAmounts(pend1)
            needed == calculate_needed_railcars(inv2, inc, params, reorder_point)
            delivery_time ==
                generate_delivery_time(params.delivery_profile, delivery_draw)
            delivery_date == current_date + delivery_time
            pend2 == IF needed > 0
                     THEN Append(pend1,
                            <<delivery_date, needed * params.railcar_capacity>>)
                     ELSE pend1
        IN  /\ delivered_today' = delivered
            /\ current_inv' = inv2
            /\ incoming' = inc
            /\ needed_railcars' = needed
            /\ pending_deliveries' = pend2
            /\ orders' = IF needed > 0
                         THEN Append(orders, <<current_date, needed>>)
                         ELSE orders
            /\ inventory' = Append(inventory, inv2)
            /\ railcars_in_transit' = Append(railcars_in_transit, Len(pend2))
            /\ pending_log' = Append(pending_log, pend2)
    /\ day' = day + 1
    /\ UNCHANGED <<pc, params, reorder_point, scenario, days, start_weekday, df>>
    /\ UNCHANGED calcvars

\* lines 94-100: build the DataFrame once range(days) is exhausted
Return ==
    /\ pc = "loop"
    /\ day >= days
    /\ pc' = "returned"
    /\ df' = [date |-> [i \in 1 .. Len(inventory) |-> i - 1],
              inventory |-> inventory,
              railcars_in_transit |-> railcars_in_transit,
              reorder_point |-> [i \in 1 .. Len(inventory) |-> reorder_point],
              incoming |-> [i \in 1 .. Max(days, 0) |->
                              SumAmounts(pending_deliveries)]]
    /\ UNCHANGED <<params, reorder_point, scenario, days, start_weekday, day,
                   current_inv, pending_deliveries, delivered_today, incoming,
                   needed_railcars, orders, inventory, railcars_in_transit,
                   pending_log>>
    /\ UNCHANGED calcvars

Next == Begin \/ SimulateDay \/ Return

Spec == Init /\ [][Next]_vars

(***************************************************************************)
(* calculate_reorder_targets as a one-step system over its inputs.         *)
(***************************************************************************)
InitCalc ==
    /\ SimIdle
    /\ cpc = "call"
    /\ cparams \in CalcParams
    /\ safety_draw \in SafetyDraws(cparams)
    /\ targets = NoTargets

Calculate ==
    /\ cpc = "call"
    /\ targets' = calculate_reorder_targets(cparams, safety_draw)
    /\ cpc' = IF targets'.raised = "none" THEN "returned" ELSE "raised"
    /\ UNCHANGED <<cparams, safety_draw>>
    /\ UNCHANGED simvars

NextCalc == Calculate

SpecCalc == InitCalc /\ [][NextCalc]_vars

(***************************************************************************)
(* Properties of simulate_days (checked under Spec).                       *)
(***************************************************************************)
Started == pc \in {"loop", "returned"}

\* the day whose iteration ran last
LastDay == day - 1

\* inventory at the end of the day before d (the seed for d = 0)
InvBefore(d) == IF d = 0 THEN reorder_point ELSE inventory[d]

\* pending set at the end of the day before d
PendingBefore(d) == IF d = 0 THEN <<>> ELSE pending_log[d]

\* number of orders logged with date d
OrdersOn(d) == Cardinality({i \in 1 .. Len(orders) : orders[i][1] = d})

\* C1: the inventory level recorded for every simulated day is >= 0.
C1_InventoryNonNegative ==
    Started => /\ current_inv >= 0
               /\ \A i \in 1 .. Len(inventory) : inventory[i] >= 0

\* C1 witness: on a weekday the draw exceeded the stock on hand and the
\* clamp emptied a non-empty inventory.
C1_Witness ==
    /\ Started /\ day > 0
    /\ IsWeekday(LastDay)
    /\ InvBefore(LastDay) + delivered_today > 0
    /\ current_inv = 0
    /\ params.usage_variability # 0

\* C2: an order is logged on day d iff, at the reorder check of day d,
\* current_inv + incoming < reorder_point; at most one order per day.
C2_OrderIffBelowReorderPoint ==
    (Started /\ day > 0) =>
        /\ OrdersOn(LastDay) = IF current_inv + incoming < reorder_point
                               THEN 1 ELSE 0
        /\ \A d \in 0 .. LastDay : OrdersOn(d) <= 1
        /\ (needed_railcars > 0) = (current_inv + incoming < reorder_point)

\* C2 witness: an order was logged today, and an earlier day logged none.
C2_Witness ==
    /\ Started /\ day > 1
    /\ OrdersOn(LastDay) = 1
    /\ \E d \in 0 .. LastDay - 1 : OrdersOn(d) = 0

\* C3 (as claimed): the delivery date of every order lies within
\* [order_date + min_days, order_date + max_days].
C3_DeliveryWithinProfile ==
    (Started /\ needed_railcars > 0) =>
        LET o == orders[Len(orders)]
            p == pending_deliveries[Len(pending_deliveries)]
            lead == (p[1] - o[1]) * DayFrac
        IN  /\ params.delivery_profile.min_days <= lead
            /\ lead <= params.delivery_profile.max_days

\* C4 (as claimed): df.incoming[d] is the total of the deliveries pending at
\* the end of day d.
C4_IncomingIsDailySnapshot ==
    pc = "returned" =>
        /\ Len(df.incoming) = Len(pending_log)
        /\ \A i \in 1 .. Len(df.incoming) :
              /\ df.incoming[i] = SumAmounts(pending_log[i])
              /\ df.railcars_in_transit[i] = Len(pending_log[i])

\* C5 (as claimed): with days < 1 simulate_days fails with
\* InvalidParameterError; it never returns a result.
C5_NonPositiveDaysRejected ==
    pc = "returned" => days >= 1

\* C8: on a Saturday or Sunday the inventory at the end of the day is the
\* inventory at the end of the previous day plus the deliveries arriving.
C8_WeekendNoDemand ==
    (Started /\ day > 0 /\ Weekday(LastDay) \in {5, 6}) =>
        /\ inventory[day] =
              InvBefore(LastDay)
              + SumAmounts(Arriving(PendingBefore(LastDay), LastDay))
        /\ current_inv = inventory[day]

\* C8 witness: a weekend day on which a delivery arrived.
C8_Witness ==
    /\ Started /\ day > 0
    /\ Weekday(LastDay) \in {5, 6}
    /\ delivered_today > 0
    /\ params.usage_variability # 0

\* C9: at the end of every day, reorder_point <= current_inv + pending
\* amounts < reorder_point + railcar_capacity.
C9_CoverageInvariant ==
    Started =>
        LET coverage == current_inv + SumAmounts(pending_deliveries)
        IN  /\ coverage >= reorder_point
            /\ coverage < reorder_point + params.railcar_capacity

\* C9 witness: a shortage larger than one railcar was covered by one order
\* of several railcars.
C9_Witness ==
    /\ Started /\ day > 0
    /\ needed_railcars >= 2
    /\ reorder_point - (current_inv + incoming) > params.railcar_capacity

\* C10 (as claimed): at the end of day d every pending delivery has a
\* delivery date strictly later than d.
C10_NoStrandedDelivery ==
    (Started /\ day > 0) =>
        \A i \in 1 .. Len(pending_deliveries) :
            pending_deliveries[i][1] > LastDay

(***************************************************************************)
(* Properties of calculate_reorder_targets (checked under SpecCalc).       *)
(***************************************************************************)
InvalidCalcParams(p) ==
    \/ p.typical_daily_usage <= 0
    \/ p.railcar_capacity <= 0
    \/ p.delivery_profile.mean_days < 0
    \/ p.delivery_profile.std_days < 0

\* C6 (as claimed): invalid parameters make calculate_reorder_targets fail
\* with InvalidParameterError; it never returns numbers for them.
C6_InvalidParamsRejected ==
    InvalidCalcParams(cparams) => cpc # "returned"

\* C7: the risk-adjusted railcar count equals min_railcars at
\* price_risk_tolerance = 1 and max_railcars at price_risk_tolerance = 0.
C7_RiskAdjustedEndpoints ==
    (cpc = "returned" /\ ~InvalidCalcParams(cparams)) =>
        /\ (cparams.price_risk_tolerance = TolSteps =>
              targets.max_railcars = targets.recommended_railcars)
        /\ (cparams.price_risk_tolerance = 0 =>
              targets.max_railcars =
                  CeilDiv(targets.reorder_point_num,
                          CalcDen * cparams.railcar_capacity))

\* C7 witness: valid parameters at tolerance 0 whose max_railcars exceeds
\* min_railcars.
C7_Witness ==
    /\ cpc = "returned"
    /\ ~InvalidCalcParams(cparams)
    /\ cparams.price_risk_tolerance = 0
    /\ targets.max_railcars > targets.recommended_railcars

====
